---------------------------- MODULE Spec2Model ----------------------------
(***************************************************************************)
(* The improvement loop coordinator of plex_improvement/scripts/           *)
(* loop_coordinator.py: the LoopCoordinator state, its progress, plateau   *)
(* and regression detection, its exit policy, and the main() loop; and the *)
(* MetricComparison and SuccessEvaluator of compare_metrics.py.            *)
(*                                                                         *)
(* Percentages are kept in hundredths of a percent (x100), the precision   *)
(* round(..., 2) leaves in the progress dictionary.                        *)
(***************************************************************************)
EXTENDS Integers, Sequences, FiniteSets, TLC

VARIABLES
    state,                  \* LoopCoordinator.state (the RunState dictionary)
    pc,                     \* position of main() / of the caller of a method
    diagnostic_results,     \* main(): diagnostic_results
    implementation_results, \* main(): implementation_results
    testing_results,        \* main(): testing_results
    next_action,            \* main(): next_action
    progress,               \* should_exit() / calculate_progress(): progress
    ret,                    \* the value the last method call returned
    state_file,             \* contents of loop_state.json
    evaluator               \* compare_metrics.py: the SuccessEvaluator object

vars == <<state, pc, diagnostic_results, implementation_results,
          testing_results, next_action, progress, ret, state_file, evaluator>>

\* Python's None where a dictionary is expected; where a string is expected
\* (exit_condition, next_action, reason) None is the string "None".
None == [none |-> TRUE]

(***************************************************************************)
(* Bounds of the model.                                                    *)
(***************************************************************************)
\* Iteration budget the loop is explored with (the source's default is
\* DefaultMaxIterations; the loop is explored with a smaller budget so that
\* runs reaching and passing the budget are covered exhaustively).
LoopBudget == 2

\* How many passes beyond the budget the loop is followed.
Overrun == 1

\* Longest iteration_history a method is called with in FnSpec.
MaxHist == 5

(***************************************************************************)
(* Program constants.                                                      *)
(***************************************************************************)
DefaultMaxIterations == 10

SuccessThreshold == 90

RegressionThreshold == -5

PlateauThreshold == 5

(***************************************************************************)
(* Metrics snapshots (parse_aggregation_report).                           *)
(***************************************************************************)
Snapshot(ops, found, tf, me, ue) ==
    [total_search_ops |-> ops, titles_found |-> found, title_failures |-> tf,
     model_errors |-> me, url_errors |-> ue]

S0   == Snapshot(100, 100, 0, 0, 0)
S1   == Snapshot(100, 99, 1, 0, 0)
S10  == Snapshot(100, 90, 10, 0, 0)
S30  == Snapshot(100, 70, 20, 4, 6)
S40  == Snapshot(100, 60, 20, 10, 10)
S48  == Snapshot(100, 52, 30, 8, 10)
S50  == Snapshot(100, 50, 30, 10, 10)
S100 == Snapshot(0, 0, 60, 10, 30)

\* Snapshots the aggregation collaborator returns in the loop.
LoopMetrics == {S0, S1, S30}

\* Snapshots of the histories the methods are called with in FnSpec.
FnMetrics == {S0, S10, S30, S40, S48, S50, S100}

Phases == {"aggregation", "diagnostics", "implementation", "testing"}

(***************************************************************************)
(* Arithmetic.                                                             *)
(***************************************************************************)
\* round(n / float(d) * 100, 2), in hundredths, for d > 0: nearest, ties to
\* even (Python 3 round).
RoundPctX100(n, d) ==
    LET q == (n * 10000) \div d
        r == (n * 10000) - q * d
    IN  IF 2 * r < d THEN q
        ELSE IF 2 * r > d THEN q + 1
        ELSE IF q % 2 = 0 THEN q ELSE q + 1

\* title_failures + url_errors + model_errors of a snapshot.
ErrorCount(m) == m.title_failures + m.url_errors + m.model_errors

\* The aggregation records of a history, in order.
AggRecords(h) == SelectSeq(h, LAMBDA r : r.phase = "aggregation")

(***************************************************************************)
(* LoopCoordinator.__init__ without a state file.                          *)
(***************************************************************************)
FreshState ==
    [iteration |-> 0,
     max_iterations |-> DefaultMaxIterations,
     baseline_metrics |-> None,
     current_metrics |-> None,
     iteration_history |-> <<>>,
     fixes_attempted |-> <<>>,
     fixes_successful |-> <<>>,
     fixes_failed |-> <<>>,
     exit_condition |-> "None"]

(***************************************************************************)
(* record_iteration(phase, results)                                        *)
(***************************************************************************)
\* Mutant: the record is put in front of the history.
record_iteration_front(st, phase, results) ==
    [st EXCEPT !.iteration_history =
        <<[iteration |-> st.iteration,
           phase |-> phase,
           results |-> results,
           metrics_snapshot |-> st.current_metrics]>> \o @]

record_iteration(st, phase, results) ==
    [st EXCEPT !.iteration_history =
        Append(@, [iteration |-> st.iteration,
                   phase |-> phase,
                   results |-> results,
                   metrics_snapshot |-> st.current_metrics])]

(***************************************************************************)
(* calculate_progress()                                                    *)
(***************************************************************************)
\* Mutant: without errors at the baseline every error counts as a loss of
\* 100 percent.
ErrorReductionX100_unguarded(baseline_errors, current_errors) ==
    IF baseline_errors > 0
    THEN RoundPctX100(baseline_errors - current_errors, baseline_errors)
    ELSE IF current_errors > 0 THEN -10000 ELSE 0

\* error_reduction of lines 135-138, rounded as in line 150.
ErrorReductionX100(baseline_errors, current_errors) ==
    IF baseline_errors > 0
    THEN RoundPctX100(baseline_errors - current_errors, baseline_errors)
    ELSE 0

\* success_improvement of lines 141-147, rounded as in line 151.
SuccessImprovementX100(baseline, current) ==
    LET bs == baseline.total_search_ops
        cs == current.total_search_ops
        be == ErrorCount(baseline)
        ce == ErrorCount(current)
    IN  IF bs > 0 /\ cs > 0
        THEN RoundPctX100((cs - ce) * bs - (bs - be) * cs, cs * bs)
        ELSE IF cs > 0 THEN RoundPctX100(cs - ce, cs)
        ELSE IF bs > 0 THEN RoundPctX100(be - bs, bs)
        ELSE 0

\* Mutant: the baseline is the aggregation record before the latest one
\* instead of the first one of the run.
first_agg_previous(h) ==
    LET agg == AggRecords(h)
    IN  agg[IF Len(agg) > 1 THEN Len(agg) - 1 ELSE 1]

\* first_agg and latest_agg of the scan of lines 116-123.
first_agg(h) == AggRecords(h)[1]

latest_agg(h) == AggRecords(h)[Len(AggRecords(h))]

calculate_progress(st) ==
    LET h == st.iteration_history
    IN  IF Len(h) < 2 THEN None
        ELSE IF Len(AggRecords(h)) = 0 THEN None
        ELSE LET baseline == first_agg(h).metrics_snapshot
                 current  == latest_agg(h).metrics_snapshot
             IN  [total_error_reduction |->
                      ErrorReductionX100(ErrorCount(baseline), ErrorCount(current)),
                  success_rate_improvement |->
                      SuccessImprovementX100(baseline, current),
                  iterations |-> Len(AggRecords(h)),
                  fixes_successful |-> Len(st.fixes_successful),
                  fixes_failed |-> Len(st.fixes_failed),
                  baseline_errors |-> ErrorCount(baseline),
                  current_errors |-> ErrorCount(current)]

(***************************************************************************)
(* detect_plateau(progress)                                                *)
(***************************************************************************)
\* The list `improvements` of lines 181-192: one entry per adjacent pair of
\* recent_iterations whose earlier snapshot has errors; an entry is TRUE
\* when that improvement is below 5 percent.
PlateauImprovements(recent_iterations) ==
    LET Pairs == SelectSeq([i \in 1..(Len(recent_iterations) - 1) |-> i],
                     LAMBDA i : ErrorCount(recent_iterations[i].metrics_snapshot) > 0)
    IN  [k \in 1..Len(Pairs) |->
            LET prev_errors == ErrorCount(recent_iterations[Pairs[k]].metrics_snapshot)
                curr_errors == ErrorCount(recent_iterations[Pairs[k] + 1].metrics_snapshot)
            IN  (prev_errors - curr_errors) * 100 < PlateauThreshold * prev_errors]

detect_plateau(st, prog) ==
    LET h   == st.iteration_history
        agg == AggRecords(h)
    IN  IF Len(h) < 3 THEN FALSE
        ELSE IF Len(agg) < 2 THEN FALSE
        ELSE LET recent_iterations == SubSeq(agg, Len(agg) - 1, Len(agg))
                 improvements == PlateauImprovements(recent_iterations)
             IN  IF Len(improvements) >= 2
                 THEN \A k \in 1..Len(improvements) : improvements[k]
                 ELSE FALSE

(***************************************************************************)
(* detect_regression(progress), has_more_fixes()                           *)
(***************************************************************************)
\* Mutant: the comparison has the sign of the threshold wrong.
detect_regression_above(prog) ==
    IF prog = None THEN FALSE
    ELSE prog.total_error_reduction > -RegressionThreshold * 100

detect_regression(prog) ==
    IF prog = None THEN FALSE
    ELSE prog.total_error_reduction < RegressionThreshold * 100

has_more_fixes(st) == st.iteration < st.max_iterations

(***************************************************************************)
(* should_exit(): the state after the call and the returned tuple.         *)
(***************************************************************************)
ExitWith(st, cond, reason) ==
    [state |-> [st EXCEPT !.exit_condition = cond],
     should_exit |-> TRUE, reason |-> reason]

\* Mutant: the success condition is tested before the iteration budget.
should_exit_success_first(st) ==
    LET prog == calculate_progress(st)
    IN  IF prog # None /\ prog.total_error_reduction >= SuccessThreshold * 100
        THEN ExitWith(st, "success", "Target improvement achieved")
        ELSE IF st.iteration >= st.max_iterations
        THEN ExitWith(st, "max_iterations_reached", "Maximum iterations reached")
        ELSE IF detect_regression(prog)
        THEN ExitWith(st, "regression_detected", "System performance has regressed")
        ELSE [state |-> st, should_exit |-> FALSE, reason |-> "None"]

\* Mutant: a call that returns false records that in exit_condition.
should_exit_stamping(st) ==
    LET prog == calculate_progress(st)
    IN  IF st.iteration >= st.max_iterations
        THEN ExitWith(st, "max_iterations_reached", "Maximum iterations reached")
        ELSE IF prog # None /\ prog.total_error_reduction >= SuccessThreshold * 100
        THEN ExitWith(st, "success", "Target improvement achieved")
        ELSE IF detect_regression(prog)
        THEN ExitWith(st, "regression_detected", "System performance has regressed")
        ELSE [state |-> [st EXCEPT !.exit_condition = "continue"],
              should_exit |-> FALSE, reason |-> "None"]

should_exit(st) ==
    LET prog == calculate_progress(st)
    IN  IF st.iteration >= st.max_iterations
        THEN ExitWith(st, "max_iterations_reached", "Maximum iterations reached")
        ELSE IF ~has_more_fixes(st)
        THEN ExitWith(st, "all_fixes_attempted", "All identified fixes have been attempted")
        ELSE IF detect_plateau(st, prog)
        THEN ExitWith(st, "plateau_detected", "Progress has plateaued")
        ELSE IF prog # None /\ prog.total_error_reduction >= SuccessThreshold * 100
        THEN ExitWith(st, "success", "Target improvement achieved")
        ELSE IF detect_regression(prog)
        THEN ExitWith(st, "regression_detected", "System performance has regressed")
        ELSE [state |-> st, should_exit |-> FALSE, reason |-> "None"]

(***************************************************************************)
(* The collaborators' possible results.                                    *)
(***************************************************************************)
FixCandidate(name, priority) == [name |-> name, priority |-> priority]

\* Fix lists parse_diagnostic_report can return.
DiagnosedFixLists ==
    {<<FixCandidate("F1", "HIGH"), FixCandidate("F2", "HIGH")>>,
     <<FixCandidate("F1", "MEDIUM"), FixCandidate("F2", "HIGH")>>,
     <<FixCandidate("F1", "LOW")>>}

\* Decisions parse_test_report can return.
Decisions == {"KEEP", "ROLLBACK", "MONITOR", "MODIFY", "UNKNOWN"}

Range(seq) == {seq[i] : i \in 1..Len(seq)}

\* dict.get(key, default)
Get(d, key, default) == IF key \in DOMAIN d THEN d[key] ELSE default

\* The outcome of a Python call: the returned value, or the exception raised.
Returned(value) == [raised |-> "None", value |-> value]

Raised(exception) == [raised |-> exception, value |-> None]

(***************************************************************************)
(* The text of loop_state.json.  json.dump writes the members of the       *)
(* top-level object one after the other and the closing brace last; the    *)
(* text is the sequence of the members written and whether it is closed.   *)
(* A file opened with mode 'w' is empty; json.load accepts closed texts    *)
(* only.                                                                   *)
(***************************************************************************)
\* The keys of self.state in the order __init__ inserts them.
StateKeys ==
    <<"iteration", "max_iterations", "baseline_metrics", "current_metrics",
      "iteration_history", "fixes_attempted", "fixes_successful",
      "fixes_failed", "exit_condition">>

\* The keys of the dictionary save_state builds.
SaveKeys == <<"saved_at", "reason", "coordinator_state">>

\* open(state_file, 'w'): the file exists and is empty.
EmptyFile == [members |-> <<>>, closed |-> FALSE]

\* json.dump(d, f) of the dictionary d with the keys keys, completed.
json_dump(d, keys) ==
    [members |-> [i \in 1..Len(keys) |-> <<keys[i], d[keys[i]]>>],
     closed |-> TRUE]

\* json.load(f): the dictionary of a closed text, ValueError otherwise.
json_load(text) ==
    IF ~text.closed THEN Raised("ValueError")
    ELSE Returned([k \in {text.members[i][1] : i \in 1..Len(text.members)} |->
                      text.members[CHOOSE i \in 1..Len(text.members) :
                                       text.members[i][1] = k][2]])

(***************************************************************************)
(* save_state(reason) and the state dump of generate_final_report(): the   *)
(* text each leaves in loop_state.json.                                    *)
(***************************************************************************)
save_state(st, reason) ==
    json_dump([saved_at |-> "now", reason |-> reason, coordinator_state |-> st],
              SaveKeys)

\* Mutant: the final dump has the layout save_state writes.
generate_final_report_wrapped(st) ==
    json_dump([saved_at |-> "now", reason |-> "final", coordinator_state |-> st],
              SaveKeys)

generate_final_report(st) == json_dump(st, StateKeys)

(***************************************************************************)
(* load_state(state_file) and __init__(state_file): the outcome is the     *)
(* value of self.state, or the exception raised.  A path that does not     *)
(* exist is the file None.                                                 *)
(***************************************************************************)
load_state(file) == json_load(file)

LoopCoordinator(file) ==
    IF file # None THEN load_state(file) ELSE Returned(FreshState)

(***************************************************************************)
(* main(), lines 982-987: the metrics of a completed aggregation           *)
(***************************************************************************)
\* Mutant: the baseline is overwritten by every aggregation.
store_metrics_always(st, metrics) ==
    [st EXCEPT !.current_metrics = metrics, !.baseline_metrics = metrics]

store_metrics(st, metrics) ==
    IF st.iteration = 1
    THEN [st EXCEPT !.current_metrics = metrics, !.baseline_metrics = metrics]
    ELSE [st EXCEPT !.current_metrics = metrics]

(***************************************************************************)
(* execute_implementation(diagnostic_results, iteration)                   *)
(***************************************************************************)
\* Mutant: the scan ignores the priority.
pending_fixes_any_priority(st, diag) ==
    SelectSeq(diag.fixes, LAMBDA f : f.name \notin Range(st.fixes_attempted))

\* Mutant: the scan ignores fixes_attempted.
pending_fixes_any_high(st, diag) ==
    SelectSeq(diag.fixes, LAMBDA f : f.priority = "HIGH")

pending_fixes(st, diag) ==
    SelectSeq(diag.fixes,
              LAMBDA f : f.priority = "HIGH" /\ f.name \notin Range(st.fixes_attempted))

\* returncode_ok: implement_fix.py exited with code 0 (or is simulated).
execute_implementation(st, diag, returncode_ok) ==
    IF pending_fixes(st, diag) = <<>>
    THEN [state |-> st, result |-> [status |-> "no_fixes"]]
    ELSE LET fix_to_implement == pending_fixes(st, diag)[1]
         IN  IF ~returncode_ok
             THEN [state |-> [st EXCEPT !.fixes_failed = Append(@, fix_to_implement.name)],
                   result |-> [status |-> "failed",
                               fix_name |-> fix_to_implement.name]]
             ELSE [state |-> [st EXCEPT !.fixes_attempted = Append(@, fix_to_implement.name)],
                   result |-> [status |-> "success",
                               fix_name |-> fix_to_implement.name,
                               fix_details |-> fix_to_implement]]

(***************************************************************************)
(* execute_testing(implementation_results, iteration), after the scripts   *)
(* have run: the bookkeeping of lines 721-732.                             *)
(***************************************************************************)
execute_testing(st, impl, decision) ==
    [state |-> IF decision = "KEEP"
               THEN [st EXCEPT !.fixes_successful = Append(@, impl.fix_name)]
               ELSE IF decision = "ROLLBACK"
               THEN [st EXCEPT !.fixes_failed = Append(@, impl.fix_name)]
               ELSE st,
     result |-> [status |-> "success", decision |-> decision]]

(***************************************************************************)
(* make_loop_decision(test_results)                                        *)
(***************************************************************************)
\* Mutant: a ROLLBACK verdict never leads to the alternative solution.
make_loop_decision_no_alternative(st, test_results) ==
    LET decision == Get(test_results, "decision", "UNKNOWN")
    IN  IF decision = "KEEP"
        THEN IF has_more_fixes(st) THEN "next_fix" ELSE "re_diagnose"
        ELSE IF decision = "MONITOR" THEN "wait_and_retest"
        ELSE IF decision = "MODIFY" THEN "re_diagnose"
        ELSE "next_fix"

make_loop_decision(st, test_results) ==
    LET decision == Get(test_results, "decision", "UNKNOWN")
    IN  IF decision = "KEEP"
        THEN IF has_more_fixes(st) THEN "next_fix" ELSE "re_diagnose"
        ELSE IF decision = "ROLLBACK"
        THEN IF Get(test_results, "alternative_solution", FALSE)
             THEN "try_alternative" ELSE "next_fix"
        ELSE IF decision = "MONITOR" THEN "wait_and_retest"
        ELSE IF decision = "MODIFY" THEN "re_diagnose"
        ELSE "next_fix"

(***************************************************************************)
(* main()                                                                  *)
(***************************************************************************)
\* Line 940: LoopCoordinator() without a state file, with the iteration
\* budget LoopBudget in place of the default.
Init ==
    /\ state = [FreshState EXCEPT !.max_iterations = LoopBudget]
    /\ pc = "start"
    /\ diagnostic_results = None
    /\ implementation_results = None
    /\ testing_results = None
    /\ next_action = "None"
    /\ progress = None
    /\ ret = None
    /\ state_file = None
    /\ evaluator = None

\* Lines 961-965: the prompt before the loop; Ctrl+C ends the process.
Begin ==
    /\ pc = "start"
    /\ \/ pc' = "top"
       \/ pc' = "interrupted"
    /\ UNCHANGED evaluator
    /\ UNCHANGED <<state, diagnostic_results, implementation_results,
                   testing_results, next_action, progress, ret, state_file>>

\* Lines 967-987: a pass begins; PHASE 1.
Aggregate ==
    /\ pc = "top"
    /\ state.iteration < state.max_iterations + Overrun
    /\ LET st1 == [state EXCEPT !.iteration = @ + 1]
       IN  \/ /\ state' = st1
              /\ pc' = "report"
           \/ \E metrics \in LoopMetrics :
                /\ state' = record_iteration(store_metrics(st1, metrics), "aggregation",
                                [status |-> "success", metrics |-> metrics])
                /\ pc' = "diagnose"
    /\ UNCHANGED evaluator
    /\ UNCHANGED <<diagnostic_results, implementation_results,
                   testing_results, next_action, progress, ret, state_file>>

\* Lines 989-995: PHASE 2.
Diagnose ==
    /\ pc = "diagnose"
    /\ \/ /\ diagnostic_results' = None
          /\ pc' = "report"
          /\ UNCHANGED state
       \/ \E fixes \in DiagnosedFixLists :
            /\ diagnostic_results' = [status |-> "success", fixes |-> fixes]
            /\ state' = record_iteration(state, "diagnostics", diagnostic_results')
            /\ pc' = "implement"
    /\ UNCHANGED evaluator
    /\ UNCHANGED <<implementation_results, testing_results, next_action,
                   progress, ret, state_file>>

\* Lines 997-1015: PHASE 3.
Implement ==
    /\ pc = "implement"
    /\ \E returncode_ok \in BOOLEAN :
         LET r == execute_implementation(state, diagnostic_results, returncode_ok)
         IN  /\ implementation_results' = r.result
             /\ IF r.result.status = "no_fixes"
                THEN state' = r.state /\ pc' = "check_exit_no_fixes"
                ELSE IF r.result.status = "failed"
                THEN state' = r.state /\ pc' = "top"
                ELSE /\ state' = record_iteration(r.state, "implementation", r.result)
                     /\ pc' = "test"
    /\ UNCHANGED evaluator
    /\ UNCHANGED <<diagnostic_results, testing_results, next_action,
                   progress, ret, state_file>>

\* Lines 1017-1024: PHASE 4.
Test ==
    /\ pc = "test"
    /\ \/ /\ testing_results' = None
          /\ pc' = "report"
          /\ UNCHANGED state
       \/ \E decision \in Decisions :
            LET r == execute_testing(state, implementation_results, decision)
            IN  /\ testing_results' = r.result
                /\ state' = record_iteration(r.state, "testing", r.result)
                /\ pc' = "decide"
    /\ UNCHANGED evaluator
    /\ UNCHANGED <<diagnostic_results, implementation_results, next_action,
                   progress, ret, state_file>>

\* Lines 1026-1040: DECISION POINT.
Decide ==
    /\ pc = "decide"
    /\ next_action' = make_loop_decision(state, testing_results)
    /\ IF next_action' = "next_fix"
       THEN pc' = "top" /\ UNCHANGED state_file
       ELSE IF next_action' = "wait_and_retest"
       THEN pc' = "report" /\ state_file' = save_state(state, "waiting_for_retest")
       ELSE pc' = "check_exit" /\ UNCHANGED state_file
    /\ UNCHANGED evaluator
    /\ UNCHANGED <<state, diagnostic_results, implementation_results,
                   testing_results, progress, ret>>

\* Lines 1002-1008 and 1042-1050: should_exit() is consulted.
CheckExit ==
    /\ pc \in {"check_exit_no_fixes", "check_exit"}
    /\ progress' = calculate_progress(state)
    /\ state' = should_exit(state).state
    /\ ret' = [should_exit |-> should_exit(state).should_exit,
               reason |-> should_exit(state).reason]
    /\ pc' = IF ret'.should_exit THEN "report"
             ELSE IF pc = "check_exit_no_fixes" THEN "top"
             ELSE "prompt"
    /\ UNCHANGED evaluator
    /\ UNCHANGED <<diagnostic_results, implementation_results,
                   testing_results, next_action, state_file>>

\* Lines 1059-1062: the prompt between passes; Ctrl+C ends the process
\* (lines 1079-1081).
Prompt ==
    /\ pc = "prompt"
    /\ \/ pc' = "top"
       \/ pc' = "interrupted"
    /\ UNCHANGED evaluator
    /\ UNCHANGED <<state, diagnostic_results, implementation_results,
                   testing_results, next_action, progress, ret, state_file>>

\* Lines 1064-1065: the final report, which also dumps the state.
Report ==
    /\ pc = "report"
    /\ state_file' = generate_final_report(state)
    /\ pc' = "done"
    /\ UNCHANGED evaluator
    /\ UNCHANGED <<state, diagnostic_results, implementation_results,
                   testing_results, next_action, progress, ret>>

Next ==
    \/ Begin
    \/ Aggregate
    \/ Diagnose
    \/ Implement
    \/ Test
    \/ Decide
    \/ CheckExit
    \/ Prompt
    \/ Report

Spec == Init /\ [][Next]_vars

(***************************************************************************)
(* FairSpec: main() followed beyond the horizon max_iterations + Overrun.  *)
(* A pass there can reach the top of the loop again only through lines     *)
(* 1010-1013 (the implementation failed): a tested fix enters              *)
(* fixes_attempted, of which the diagnosed names allow finitely many, and  *)
(* every should_exit() call returns at line 239.  Such a pass increments   *)
(* iteration and appends to iteration_history and fixes_failed, and no     *)
(* branch of main() reads any of the three differently afterwards; the     *)
(* model keeps them at their values at the horizon.                        *)
(***************************************************************************)
\* Lines 967-1013 beyond the horizon: aggregation and diagnosis succeed and
\* the implementation of the first pending fix fails.
BeyondFailedPass ==
    /\ pc = "top"
    /\ state.iteration = state.max_iterations + Overrun
    /\ \E metrics \in LoopMetrics, fixes \in DiagnosedFixLists :
         LET diag == [status |-> "success", fixes |-> fixes]
             r    == execute_implementation(state, diag, FALSE)
         IN  /\ r.result.status = "failed"
             /\ diagnostic_results' = diag
             /\ implementation_results' = r.result
             /\ state' = [state EXCEPT !.current_metrics = metrics]
    /\ pc' = "top"
    /\ UNCHANGED evaluator
    /\ UNCHANGED <<testing_results, next_action, progress, ret, state_file>>

\* Lines 967-980 beyond the horizon: the aggregation fails and the loop is
\* left.
BeyondLastPass ==
    /\ pc = "top"
    /\ state.iteration = state.max_iterations + Overrun
    /\ pc' = "report"
    /\ UNCHANGED evaluator
    /\ UNCHANGED <<state, diagnostic_results, implementation_results,
                   testing_results, next_action, progress, ret, state_file>>

FairNext == Next \/ BeyondFailedPass \/ BeyondLastPass

\* The process is scheduled until it ends: a step that can be taken is
\* eventually taken.  Nothing is assumed of the collaborators' results.
FairSpec == Init /\ [][FairNext]_vars /\ WF_vars(FairNext)

(***************************************************************************)
(* FnSpec: the methods of LoopCoordinator called on bounded RunStates, as   *)
(* a coordinator constructed from a saved state (load_state) holds them:   *)
(* the default budget, an iteration counter below, at or above it, and a   *)
(* history in the order main() records it.                                 *)
(***************************************************************************)
\* The phase main() can record after a record of phase p: diagnostics
\* follows aggregation, implementation or the next pass's aggregation
\* follows diagnostics, testing follows implementation, and the next
\* pass's aggregation follows testing.
NextPhases(p) ==
    CASE p = "aggregation"    -> {"diagnostics"}
      [] p = "diagnostics"    -> {"implementation", "aggregation"}
      [] p = "implementation" -> {"testing"}
      [] p = "testing"        -> {"aggregation"}

FnAggRecord(i, m) ==
    [iteration |-> i, phase |-> "aggregation",
     results |-> [status |-> "success", metrics |-> m], metrics_snapshot |-> m]

\* The records record_iteration can append to the non-empty history h.
FnExtensions(h) ==
    LET last == h[Len(h)]
    IN  UNION {IF p = "aggregation"
               THEN {FnAggRecord(last.iteration + 1, m) : m \in FnMetrics}
               ELSE {[iteration |-> last.iteration, phase |-> p,
                      results |-> [status |-> "success"],
                      metrics_snapshot |-> last.metrics_snapshot]} :
               p \in NextPhases(last.phase)}

RECURSIVE FnHistoriesOfLen(_)
FnHistoriesOfLen(n) ==
    IF n = 0 THEN {<<>>}
    ELSE IF n = 1 THEN {<<FnAggRecord(1, m)>> : m \in FnMetrics}
    ELSE UNION {{Append(h, r) : r \in FnExtensions(h)} : h \in FnHistoriesOfLen(n - 1)}

FnHistories == UNION {FnHistoriesOfLen(n) : n \in 0..MaxHist}

FnIterations == {0, DefaultMaxIterations - 1, DefaultMaxIterations,
                 DefaultMaxIterations + 1}

FnState(i, h) ==
    [FreshState EXCEPT
        !.iteration = i,
        !.iteration_history = h,
        !.current_metrics = IF Len(h) = 0 THEN None ELSE h[Len(h)].metrics_snapshot,
        !.baseline_metrics = IF Len(AggRecords(h)) = 0 THEN None
                             ELSE AggRecords(h)[1].metrics_snapshot]

FnInit ==
    /\ state \in {FnState(i, h) : i \in FnIterations, h \in FnHistories}
    /\ pc = "call"
    /\ diagnostic_results = None
    /\ implementation_results = None
    /\ testing_results = None
    /\ next_action = "None"
    /\ progress = None
    /\ ret = None
    /\ state_file = None
    /\ evaluator = None

CallCalculateProgress ==
    /\ pc = "call"
    /\ progress' = calculate_progress(state)
    /\ ret' = progress'
    /\ pc' = "calculate_progress"
    /\ UNCHANGED evaluator
    /\ UNCHANGED <<state, diagnostic_results, implementation_results,
                   testing_results, next_action, state_file>>

CallDetectPlateau ==
    /\ pc = "call"
    /\ progress' = calculate_progress(state)
    /\ ret' = [value |-> detect_plateau(state, progress')]
    /\ pc' = "detect_plateau"
    /\ UNCHANGED evaluator
    /\ UNCHANGED <<state, diagnostic_results, implementation_results,
                   testing_results, next_action, state_file>>

CallShouldExit ==
    /\ pc = "call"
    /\ progress' = calculate_progress(state)
    /\ state' = should_exit(state).state
    /\ ret' = [should_exit |-> should_exit(state).should_exit,
               reason |-> should_exit(state).reason]
    /\ pc' = "should_exit"
    /\ UNCHANGED evaluator
    /\ UNCHANGED <<diagnostic_results, implementation_results,
                   testing_results, next_action, state_file>>

\* detect_regression(progress) called with the progress of the state or
\* with None.
CallDetectRegression ==
    /\ pc = "call"
    /\ \E prog \in {None, calculate_progress(state)} :
         /\ progress' = prog
         /\ ret' = [value |-> detect_regression(prog)]
    /\ pc' = "detect_regression"
    /\ UNCHANGED evaluator
    /\ UNCHANGED <<state, diagnostic_results, implementation_results,
                   testing_results, next_action, state_file>>

\* The dictionaries make_loop_decision is called with: a verdict of
\* parse_test_report or any other string, or no 'decision' key at all, and
\* for ROLLBACK an 'alternative_solution' entry that is truthy or falsy.
FnTestResults ==
    {[status |-> "success", decision |-> d] : d \in Decisions \cup {"keep"}}
    \cup {[status |-> "success"]}
    \cup {[status |-> "success", decision |-> d, alternative_solution |-> a] :
              d \in {"ROLLBACK", "KEEP"}, a \in BOOLEAN}

CallMakeLoopDecision ==
    /\ pc = "call"
    /\ \E test_results \in FnTestResults :
         /\ testing_results' = test_results
         /\ next_action' = make_loop_decision(state, test_results)
    /\ ret' = [value |-> next_action']
    /\ pc' = "make_loop_decision"
    /\ UNCHANGED evaluator
    /\ UNCHANGED <<state, diagnostic_results, implementation_results,
                   progress, state_file>>

FnNext ==
    \/ CallCalculateProgress
    \/ CallDetectPlateau
    \/ CallDetectRegression
    \/ CallShouldExit
    \/ CallMakeLoopDecision

FnSpec == FnInit /\ [][FnNext]_vars

(***************************************************************************)
(* compare_metrics.py: MetricComparison                                    *)
(***************************************************************************)
\* metrics_to_compare of generate_comparison_report.
MetricsToCompare ==
    <<"total_search_ops", "titles_found", "title_failures", "model_errors",
      "url_errors">>

\* compare_metric(metric_name) on the parsed baseline and current reports;
\* percent_change in hundredths.
compare_metric(baseline, current, metric_name) ==
    LET baseline_val == Get(baseline, metric_name, 0)
        current_val  == Get(current, metric_name, 0)
        change       == current_val - baseline_val
    IN  [metric |-> metric_name,
         baseline |-> baseline_val,
         current |-> current_val,
         change |-> change,
         percent_change |->
             IF baseline_val = 0
             THEN (IF current_val > 0 THEN 10000 ELSE 0)
             ELSE RoundPctX100(change, baseline_val),
         improved |-> current_val < baseline_val]

generate_comparison_report(baseline, current) ==
    [i \in 1..Len(MetricsToCompare) |->
        compare_metric(baseline, current, MetricsToCompare[i])]

\* calculate_overall_improvement(): the same expressions as lines 131-147 of
\* calculate_progress, each rounded to two decimals.
calculate_overall_improvement(baseline, current) ==
    LET baseline_errors   == ErrorCount(baseline)
        current_errors    == ErrorCount(current)
        baseline_searches == Get(baseline, "total_search_ops", 1)
        current_searches  == Get(current, "total_search_ops", 1)
    IN  [baseline_errors |-> baseline_errors,
         current_errors |-> current_errors,
         error_reduction |-> ErrorReductionX100(baseline_errors, current_errors),
         baseline_success_rate |->
             IF baseline_searches > 0
             THEN RoundPctX100(baseline_searches - baseline_errors, baseline_searches)
             ELSE 0,
         current_success_rate |->
             IF current_searches > 0
             THEN RoundPctX100(current_searches - current_errors, current_searches)
             ELSE 0,
         success_rate_improvement |-> SuccessImprovementX100(baseline, current)]

(***************************************************************************)
(* compare_metrics.py: SuccessEvaluator                                    *)
(***************************************************************************)
SuccessEvaluator(comparison_results, overall_improvement) ==
    [comparison_results |-> comparison_results,
     overall_improvement |-> overall_improvement]

baseline_value(ev, metric_name) ==
    LET found == SelectSeq(ev.comparison_results, LAMBDA r : r.metric = metric_name)
    IN  IF found = <<>> THEN 0 ELSE found[1].baseline

current_value(ev, metric_name) ==
    LET found == SelectSeq(ev.comparison_results, LAMBDA r : r.metric = metric_name)
    IN  IF found = <<>> THEN 0 ELSE found[1].current

\* threshold is a percentage; error_reduction is in hundredths.
check_error_reduction(ev, threshold) ==
    Get(ev.overall_improvement, "error_reduction", 0) >= threshold * 100

check_no_new_errors(ev) ==
    \A metric \in {"model_errors"} :
        ~(baseline_value(ev, metric) = 0 /\ current_value(ev, metric) > 0)

check_url_errors_reduced(ev) ==
    current_value(ev, "url_errors") <= baseline_value(ev, "url_errors")

check_title_failures_reduced(ev) ==
    current_value(ev, "title_failures") <= baseline_value(ev, "title_failures")

check_error_increase(ev) ==
    Get(ev.overall_improvement, "error_reduction", 0) < -10 * 100

check_new_critical_errors(ev) ==
    \E metric \in {"url_errors", "model_errors", "title_failures"} :
        /\ baseline_value(ev, metric) > 0
        /\ current_value(ev, metric) > baseline_value(ev, metric) * 2

Checks ==
    {"check_error_reduction", "check_no_new_errors", "check_url_errors_reduced",
     "check_title_failures_reduced", "check_error_increase",
     "check_new_critical_errors"}

\* The number of parameters besides self in the def of each check.
CheckParameters(check) == IF check = "check_error_reduction" THEN 1 ELSE 0

\* The bound method ev.<check> called with the positional arguments args: a
\* call whose argument count differs from the parameters raises TypeError.
CallCheck(ev, check, args) ==
    IF Len(args) # CheckParameters(check) THEN Raised("TypeError")
    ELSE Returned(CASE check = "check_error_reduction" ->
                           check_error_reduction(ev, args[1])
                    [] check = "check_no_new_errors" ->
                           check_no_new_errors(ev)
                    [] check = "check_url_errors_reduced" ->
                           check_url_errors_reduced(ev)
                    [] check = "check_title_failures_reduced" ->
                           check_title_failures_reduced(ev)
                    [] check = "check_error_increase" ->
                           check_error_increase(ev)
                    [] check = "check_new_critical_errors" ->
                           check_new_critical_errors(ev))

success_indicators ==
    <<[name |-> "Error reduction >= 10%",
       check |-> "check_error_reduction", threshold |-> 10],
      [name |-> "No new error types introduced",
       check |-> "check_no_new_errors"],
      [name |-> "URL errors reduced (if applicable)",
       check |-> "check_url_errors_reduced"],
      [name |-> "Title failures reduced (if applicable)",
       check |-> "check_title_failures_reduced"]>>

failure_indicators ==
    <<[name |-> "Error rate increased significantly (>10%)",
       check |-> "check_error_increase"],
      [name |-> "New critical errors introduced",
       check |-> "check_new_critical_errors"]>>

\* evaluate_fix(fix_name): every success indicator is called with one
\* argument, indicator.get('threshold', 0) (line 307), every failure
\* indicator with none (line 319); success_rate in hundredths.
evaluate_fix(ev, fix_name) ==
    LET met == [i \in 1..Len(success_indicators) |->
                   CallCheck(ev, success_indicators[i].check,
                             <<Get(success_indicators[i], "threshold", 0)>>)]
        detected == [i \in 1..Len(failure_indicators) |->
                        CallCheck(ev, failure_indicators[i].check, <<>>)]
        success_count == Cardinality({i \in DOMAIN met : met[i].value})
        total_indicators == Len(success_indicators)
        failure_detected == \E i \in DOMAIN detected : detected[i].value
        success_rate == IF total_indicators > 0
                        THEN RoundPctX100(success_count, total_indicators)
                        ELSE 0
    IN  IF \E i \in DOMAIN met : met[i].raised # "None"
        THEN Raised((met[CHOOSE i \in DOMAIN met :
                            /\ met[i].raised # "None"
                            /\ \A j \in 1..(i - 1) : met[j].raised = "None"]).raised)
        ELSE IF \E i \in DOMAIN detected : detected[i].raised # "None"
        THEN Raised("TypeError")
        ELSE Returned(
               [fix_name |-> fix_name,
                success_rate |-> success_rate,
                success_count |-> success_count,
                total_indicators |-> total_indicators,
                failure_detected |-> failure_detected,
                decision |-> IF failure_detected THEN "ROLLBACK"
                             ELSE IF success_rate >= 75 * 100 THEN "KEEP"
                             ELSE IF success_rate >= 50 * 100 THEN "MONITOR"
                             ELSE "ROLLBACK",
                reason |-> IF failure_detected
                           THEN "Critical failure indicators detected"
                           ELSE IF success_rate >= 75 * 100
                           THEN "Met >=75% of success criteria"
                           ELSE IF success_rate >= 50 * 100
                           THEN "Partial success - need more time or tweaking"
                           ELSE "Failed to meet minimum success criteria (<50%)"])

(***************************************************************************)
(* EvalSpec: main() of compare_metrics.py builds a SuccessEvaluator from a *)
(* baseline and a current report (lines 590-607); its methods are called   *)
(* on it.                                                                  *)
(***************************************************************************)
\* The counts a report gives for an error metric.
EvalCounts == {0, 5, 10, 11, 21}

\* The metrics parse_report extracts from a report.
EvalReports ==
    {Snapshot(100, 60, tf, me, ue) : tf \in EvalCounts, me \in EvalCounts,
                                     ue \in EvalCounts}

EvalInit ==
    /\ evaluator \in {SuccessEvaluator(generate_comparison_report(b, c),
                                       calculate_overall_improvement(b, c)) :
                         b \in EvalReports, c \in EvalReports}
    /\ state = FreshState
    /\ pc = "call"
    /\ diagnostic_results = None
    /\ implementation_results = None
    /\ testing_results = None
    /\ next_action = "None"
    /\ progress = None
    /\ ret = None
    /\ state_file = None

\* Line 608: evaluator.evaluate_fix(args.fix_name)
CallEvaluateFix ==
    /\ pc = "call"
    /\ ret' = evaluate_fix(evaluator, "F1")
    /\ pc' = "evaluate_fix"
    /\ UNCHANGED <<state, diagnostic_results, implementation_results,
                   testing_results, next_action, progress, state_file, evaluator>>

\* A check called as its def declares it: check_error_reduction(10), the
\* others without an argument.
CallIndicator ==
    /\ pc = "call"
    /\ \E check \in Checks :
         /\ ret' = CallCheck(evaluator, check,
                             IF CheckParameters(check) = 1 THEN <<10>> ELSE <<>>)
         /\ pc' = check
    /\ UNCHANGED <<state, diagnostic_results, implementation_results,
                   testing_results, next_action, progress, state_file, evaluator>>

EvalNext == CallEvaluateFix \/ CallIndicator

EvalSpec == EvalInit /\ [][EvalNext]_vars

(***************************************************************************)
(* StoreSpec: loop_state.json written by save_state() and by the dump of   *)
(* generate_final_report(), a process crash while it is written, and a     *)
(* coordinator constructed with its path.                                  *)
(***************************************************************************)
\* RunStates of a first pass: a fresh coordinator, or iteration 1 or 2 with
\* the records of the first aggregation and diagnosis, without or with a
\* fix whose implementation failed.
StoreStates ==
    {FreshState}
    \cup {[FnState(i, h) EXCEPT !.fixes_failed = failed] :
             i \in {1, 2}, h \in FnHistoriesOfLen(2), failed \in {<<>>, <<"F1">>}}

\* What is at the path before: nothing, a JSON object without members, or
\* the text an earlier save_state left.
StoreFiles ==
    {None, [members |-> <<>>, closed |-> TRUE], save_state(FreshState, "checkpoint")}

StoreInit ==
    /\ state \in StoreStates
    /\ state_file \in StoreFiles
    /\ pc = "call"
    /\ diagnostic_results = None
    /\ implementation_results = None
    /\ testing_results = None
    /\ next_action = "None"
    /\ progress = None
    /\ ret = None
    /\ evaluator = None

\* open(state_file, 'w') truncates the file (lines 79 and 928).
OpenFile(writing) ==
    /\ pc = "call"
    /\ state_file' = EmptyFile
    /\ pc' = writing
    /\ UNCHANGED <<state, diagnostic_results, implementation_results,
                   testing_results, next_action, progress, ret, evaluator>>

\* json.dump writes the next member of text, or closes the text and the
\* with block ends (lines 80 and 929).
WriteFile(writing, written, text) ==
    /\ pc = writing
    /\ IF Len(state_file.members) < Len(text.members)
       THEN /\ state_file' =
                 [state_file EXCEPT !.members =
                     Append(@, text.members[Len(state_file.members) + 1])]
            /\ pc' = writing
       ELSE /\ state_file' = text
            /\ pc' = written
    /\ UNCHANGED <<state, diagnostic_results, implementation_results,
                   testing_results, next_action, progress, ret, evaluator>>

SaveStateOpen == OpenFile("save_state_writing")

SaveStateWrite ==
    WriteFile("save_state_writing", "save_state", save_state(state, "checkpoint"))

FinalReportOpen == OpenFile("generate_final_report_writing")

FinalReportWrite ==
    WriteFile("generate_final_report_writing", "generate_final_report",
              generate_final_report(state))

\* The process is killed while the file is open for writing.
Crash ==
    /\ pc \in {"save_state_writing", "generate_final_report_writing"}
    /\ pc' = "crashed"
    /\ UNCHANGED <<state, state_file, diagnostic_results, implementation_results,
                   testing_results, next_action, progress, ret, evaluator>>

\* Another process runs LoopCoordinator(state_file=path); when __init__
\* raises there is no coordinator.
Construct ==
    /\ pc \in {"call", "save_state", "generate_final_report", "crashed"}
    /\ ret' = LoopCoordinator(state_file)
    /\ IF ret'.raised # "None"
       THEN state' = None /\ pc' = "load_error"
       ELSE state' = ret'.value /\ pc' = "constructed"
    /\ UNCHANGED <<state_file, diagnostic_results, implementation_results,
                   testing_results, next_action, progress, evaluator>>

StoreNext ==
    \/ SaveStateOpen
    \/ SaveStateWrite
    \/ FinalReportOpen
    \/ FinalReportWrite
    \/ Crash
    \/ Construct

StoreSpec == StoreInit /\ [][StoreNext]_vars

(***************************************************************************)
(* ResumeSpec: main(), and after the process has ended a coordinator       *)
(* constructed with the path of the loop_state.json it left.               *)
(***************************************************************************)
Resume ==
    /\ pc = "done"
    /\ ret' = LoopCoordinator(state_file)
    /\ IF ret'.raised # "None"
       THEN state' = None /\ pc' = "load_error"
       ELSE state' = ret'.value /\ pc' = "resumed"
    /\ UNCHANGED <<state_file, diagnostic_results, implementation_results,
                   testing_results, next_action, progress, evaluator>>

ResumeNext == Next \/ Resume

ResumeSpec == Init /\ [][ResumeNext]_vars

(***************************************************************************)
(* Properties                                                              *)
(***************************************************************************)
\* The positions of the testing records of a history; main() records one
\* right after the implementation record of the fix that was tested
\* (lines 1015-1024).
TestRecords(h) == {i \in 2..Len(h) : h[i].phase = "testing"}

\* The names of the fixes that have been tested.
TestedFixes(h) == {h[i - 1].results.fix_name : i \in TestRecords(h)}

\* The RunState a complete loop_state.json holds: the coordinator_state
\* member of what save_state wrote, or the whole dump of
\* generate_final_report.
StoredRunState(file) ==
    LET doc == json_load(file).value
    IN  IF "coordinator_state" \in DOMAIN doc THEN doc.coordinator_state ELSE doc

\* How often name occurs in the list fixes.
Occurrences(fixes, name) == Cardinality({i \in 1..Len(fixes) : fixes[i] = name})

\* C1: after any sequence of loop passes, fixes_successful and fixes_failed
\* have no fix name in common and both hold only names that are in
\* fixes_attempted.
C1_FixBookkeeping ==
    /\ Range(state.fixes_successful) \cap Range(state.fixes_failed) = {}
    /\ Range(state.fixes_successful) \subseteq Range(state.fixes_attempted)
    /\ Range(state.fixes_failed) \subseteq Range(state.fixes_attempted)

\* C2: baseline_metrics is null before the first aggregation, is the
\* metrics of the first completed aggregation afterwards, and no step
\* changes it once it is set; current_metrics is the metrics of the most
\* recent completed aggregation.
C2_BaselineIsFirstSnapshot ==
    /\ [](LET agg  == AggRecords(state.iteration_history)
          IN  IF Len(agg) = 0
              THEN state.baseline_metrics = None /\ state.current_metrics = None
              ELSE /\ state.baseline_metrics = agg[1].results.metrics
                   /\ state.current_metrics = agg[Len(agg)].results.metrics)
    /\ [][state.baseline_metrics # None
            => state'.baseline_metrics = state.baseline_metrics]_vars

\* C2 witness: a second aggregation has completed with other metrics than
\* the first, and the baseline is still the first.
C2_Witness ==
    LET agg == AggRecords(state.iteration_history)
    IN  /\ Len(agg) >= 2
        /\ agg[Len(agg)].results.metrics # agg[1].results.metrics
        /\ state.baseline_metrics = agg[1].results.metrics
        /\ state.current_metrics = agg[Len(agg)].results.metrics

\* C3: the iteration counter never exceeds max_iterations.
C3_IterationWithinBudget == state.iteration <= state.max_iterations

\* C4: whatever the collaborators return, main() eventually leaves the
\* iteration loop (it reaches the final report, or the user ends it).
C4_LoopTerminates == <>(pc \in {"report", "done", "interrupted"})

\* C5: after a TEST phase that completed, unless the next action is
\* wait_and_retest, should_exit is consulted before the next pass begins.
C5_ExitPolicyAfterTest ==
    [][(pc = "decide" /\ next_action' # "wait_and_retest")
          => pc' = "check_exit"]_vars

\* C6: should_exit reports the first condition that holds in the order
\* max_iterations_reached, all_fixes_attempted, plateau_detected, success,
\* regression_detected; with iteration >= max_iterations it returns true
\* with max_iterations_reached, also when the error reduction is 90% or more.
C6_ExitPriority ==
    pc = "should_exit" =>
        LET holds == <<state.iteration >= state.max_iterations,
                       ~(state.iteration < state.max_iterations),
                       detect_plateau(state, progress),
                       progress # None /\ progress.total_error_reduction >= 9000,
                       progress # None /\ progress.total_error_reduction < -500>>
            names == <<"max_iterations_reached", "all_fixes_attempted",
                       "plateau_detected", "success", "regression_detected">>
            first == {i \in 1..5 : holds[i] /\ \A j \in 1..(i - 1) : ~holds[j]}
        IN  /\ \A i \in first : ret.should_exit /\ state.exit_condition = names[i]
            /\ first = {} => ~ret.should_exit /\ state.exit_condition = "None"
            /\ state.iteration >= state.max_iterations
                 => ret.should_exit /\ state.exit_condition = "max_iterations_reached"

\* C6 witness: should_exit was called with the budget used up and an error
\* reduction of at least 90%, and reported max_iterations_reached.
C6_Witness ==
    /\ pc = "should_exit"
    /\ state.iteration = state.max_iterations
    /\ progress # None
    /\ progress.total_error_reduction >= 9000
    /\ ret.should_exit
    /\ state.exit_condition = "max_iterations_reached"

\* C7: should_exit called with iteration < max_iterations and no pending fix
\* (no HIGH-priority diagnosed fix outside fixes_attempted) returns true and
\* sets exit_condition to all_fixes_attempted.
C7_AllFixesAttempted ==
    [][(/\ pc \in {"check_exit_no_fixes", "check_exit"}
        /\ state.iteration < state.max_iterations
        /\ \A i \in 1..Len(diagnostic_results.fixes) :
              \/ diagnostic_results.fixes[i].priority # "HIGH"
              \/ diagnostic_results.fixes[i].name \in Range(state.fixes_attempted))
          => (ret'.should_exit /\ state'.exit_condition = "all_fixes_attempted")]_vars

\* C8: detect_plateau returns true exactly when the history holds at least 3
\* records, at least 2 of them aggregation records, and the error reduction
\* from the second-to-last to the last aggregation snapshot is below 5%.
C8_PlateauDetected ==
    pc = "detect_plateau" =>
        LET h    == state.iteration_history
            idx  == {i \in 1..Len(h) : h[i].phase = "aggregation"}
            last == CHOOSE i \in idx : \A j \in idx : j <= i
            prev == CHOOSE i \in idx \ {last} : \A j \in idx \ {last} : j <= i
            pe   == ErrorCount(h[prev].metrics_snapshot)
            ce   == ErrorCount(h[last].metrics_snapshot)
        IN  ret.value <=>
              /\ Len(h) >= 3
              /\ Cardinality(idx) >= 2
              /\ (IF pe > 0 THEN (pe - ce) * 100 ELSE 0) < 5 * (IF pe > 0 THEN pe ELSE 1)

\* C9: calculate_progress returns None whenever the history holds fewer
\* than two aggregation records.
C9_ProgressNeedsTwoAggregations ==
    (/\ pc = "calculate_progress"
     /\ Cardinality({i \in 1..Len(state.iteration_history) :
                        state.iteration_history[i].phase = "aggregation"}) < 2)
       => ret = None

\* C10: a result of calculate_progress takes its error reduction from the
\* first and the latest aggregation record: 0 when the first snapshot has
\* no errors, otherwise (baseline_errors - current_errors) / baseline_errors
\* * 100 to two decimals (errors 100 then 40 give 60).
C10_ErrorReduction ==
    (pc = "calculate_progress" /\ ret # None) =>
        LET h     == state.iteration_history
            idx   == {i \in 1..Len(h) : h[i].phase = "aggregation"}
            first == CHOOSE i \in idx : \A j \in idx : i <= j
            last  == CHOOSE i \in idx : \A j \in idx : j <= i
            ms    == h[first].metrics_snapshot
            mc    == h[last].metrics_snapshot
            b     == ms.title_failures + ms.url_errors + ms.model_errors
            c     == mc.title_failures + mc.url_errors + mc.model_errors
            diff  == ret.total_error_reduction * b - (b - c) * 10000
        IN  /\ idx # {}
            /\ ret.baseline_errors = b /\ ret.current_errors = c
            /\ b = 0 => ret.total_error_reduction = 0
            /\ b > 0 => 2 * diff <= b /\ -2 * diff <= b
            /\ (b = 100 /\ c = 40) => ret.total_error_reduction = 6000

\* C10 witness: a history whose first aggregation has 100 errors, a later
\* one other errors, and the latest 40 gave a reduction of 60.
C10_Witness ==
    /\ pc = "calculate_progress"
    /\ ret # None
    /\ Len(AggRecords(state.iteration_history)) = 3
    /\ ret.baseline_errors = 100
    /\ ret.current_errors = 40
    /\ ret.total_error_reduction = 6000

C12_ExitConditionFrame ==
    /\ [](pc \in {"start", "top", "diagnose", "implement", "test", "decide",
                  "check_exit_no_fixes", "check_exit", "prompt"}
            => state.exit_condition = "None")
    /\ [][state'.exit_condition # state.exit_condition
            => /\ pc \in {"check_exit_no_fixes", "check_exit"}
               /\ ret'.should_exit
               /\ state.exit_condition = "None"]_vars
    /\ [][(pc \in {"check_exit_no_fixes", "check_exit"} /\ ~ret'.should_exit)
            => state' = state]_vars

\* C12 witness: the loop ran two passes and was left in the second, which
\* found no pending fix, by a should_exit call that returned true and set
\* exit_condition.
C12_Witness ==
    /\ pc = "report"
    /\ ret # None
    /\ ret.should_exit
    /\ state.exit_condition # "None"
    /\ state.iteration = 2
    /\ Len(AggRecords(state.iteration_history)) = 2
    /\ implementation_results.status = "no_fixes"

\* C13: a fix name gets at most one test verdict in a run: a fix that has
\* been tested is not selected for implementation and not tested again in
\* a later pass, and its recorded outcome (successful or failed) does not
\* change afterwards.
C13_OneVerdictPerFix ==
    /\ [](LET h == state.iteration_history
          IN  \A i, j \in TestRecords(h) :
                  h[i - 1].results.fix_name = h[j - 1].results.fix_name => i = j)
    /\ [][(pc = "implement" /\ implementation_results'.status # "no_fixes")
            => implementation_results'.fix_name
                   \notin TestedFixes(state.iteration_history)]_vars
    /\ [][\A name \in TestedFixes(state.iteration_history) :
              /\ Occurrences(state'.fixes_successful, name)
                     = Occurrences(state.fixes_successful, name)
              /\ Occurrences(state'.fixes_failed, name)
                     = Occurrences(state.fixes_failed, name)]_vars

\* C13 witness: F1 was tested in an earlier pass, the diagnosis of this pass
\* lists F1 first with priority HIGH again, and the pass implemented and
\* tested F2.
C13_Witness ==
    /\ pc = "decide"
    /\ diagnostic_results.fixes[1] = FixCandidate("F1", "HIGH")
    /\ implementation_results.fix_name = "F2"
    /\ TestedFixes(state.iteration_history) = {"F1", "F2"}
    /\ Cardinality(TestRecords(state.iteration_history)) = 2

\* C14: for every baseline/current pair evaluate_fix decides ROLLBACK if a
\* failure indicator holds (error reduction below -10%, or an error metric
\* with baseline > 0 that more than doubled), otherwise KEEP if at least 3
\* of the 4 success indicators hold, MONITOR if exactly 2 hold and ROLLBACK
\* if fewer than 2 hold.
C14_EvaluateFixDecision ==
    pc = "evaluate_fix" =>
        LET row(m) == CHOOSE r \in Range(evaluator.comparison_results) : r.metric = m
            errs   == {"title_failures", "url_errors", "model_errors"}
            be     == row("title_failures").baseline + row("url_errors").baseline
                        + row("model_errors").baseline
            ce     == row("title_failures").current + row("url_errors").current
                        + row("model_errors").current
            failure == \/ be > 0 /\ (be - ce) * 100 < -10 * be
                       \/ \E m \in errs : /\ row(m).baseline > 0
                                           /\ row(m).current > 2 * row(m).baseline
            success == <<be > 0 /\ (be - ce) * 100 >= 10 * be,
                         \A m \in errs : ~(row(m).baseline = 0 /\ row(m).current > 0),
                         row("url_errors").current <= row("url_errors").baseline,
                         row("title_failures").current <= row("title_failures").baseline>>
            count  == Cardinality({i \in 1..4 : success[i]})
        IN  /\ ret.raised = "None"
            /\ ret.value.decision = IF failure THEN "ROLLBACK"
                                    ELSE IF count >= 3 THEN "KEEP"
                                    ELSE IF count = 2 THEN "MONITOR"
                                    ELSE "ROLLBACK"

\* C15: the indicator 'no new error types' fails whenever one of
\* title_failures, url_errors and model_errors was 0 at baseline and is
\* above 0 now, and passes otherwise.
C15_NoNewErrorTypes ==
    pc = "check_no_new_errors" =>
        LET row(m) == CHOOSE r \in Range(evaluator.comparison_results) : r.metric = m
        IN  /\ ret.raised = "None"
            /\ ret.value <=>
                  ~\E m \in {"title_failures", "url_errors", "model_errors"} :
                       row(m).baseline = 0 /\ row(m).current > 0

\* C16: for a KEEP verdict make_loop_decision returns next_fix when a
\* pending fix exists (a diagnosed fix of priority HIGH whose name is not in
\* fixes_attempted) and re_diagnose when none is pending.
C16_KeepDecision ==
    [][(pc = "decide" /\ testing_results.decision = "KEEP")
          => next_action' =
                IF \E i \in 1..Len(diagnostic_results.fixes) :
                      /\ diagnostic_results.fixes[i].priority = "HIGH"
                      /\ diagnostic_results.fixes[i].name
                             \notin Range(state.fixes_attempted)
                THEN "next_fix" ELSE "re_diagnose"]_vars

\* C17: make_loop_decision returns, for every verdict, one of next_fix,
\* re_diagnose, wait_and_retest and try_alternative: for ROLLBACK
\* try_alternative when an alternative solution is attached and next_fix
\* otherwise, for MONITOR wait_and_retest, for MODIFY re_diagnose, for any
\* other or unknown verdict next_fix; it changes no field of the RunState.
C17_DecisionTotal ==
    /\ [](pc = "make_loop_decision" =>
            LET verdict == IF "decision" \in DOMAIN testing_results
                           THEN testing_results.decision ELSE "UNKNOWN"
                alternative == /\ "alternative_solution" \in DOMAIN testing_results
                               /\ testing_results.alternative_solution
            IN  /\ ret.value \in {"next_fix", "re_diagnose", "wait_and_retest",
                                  "try_alternative"}
                /\ verdict = "KEEP" => ret.value \in {"next_fix", "re_diagnose"}
                /\ verdict = "ROLLBACK"
                      => ret.value = IF alternative THEN "try_alternative"
                                     ELSE "next_fix"
                /\ verdict = "MONITOR" => ret.value = "wait_and_retest"
                /\ verdict = "MODIFY" => ret.value = "re_diagnose"
                /\ verdict \notin {"KEEP", "ROLLBACK", "MONITOR", "MODIFY"}
                      => ret.value = "next_fix")
    /\ [][pc' = "make_loop_decision" => state' = state]_vars

\* C17 witness: make_loop_decision was called with a ROLLBACK verdict that
\* has an alternative solution attached and returned try_alternative.
C17_Witness ==
    /\ pc = "make_loop_decision"
    /\ "decision" \in DOMAIN testing_results
    /\ testing_results.decision = "ROLLBACK"
    /\ "alternative_solution" \in DOMAIN testing_results
    /\ testing_results.alternative_solution
    /\ ret.value = "try_alternative"

\* C18: when the implementation of fix F fails, F is recorded in
\* fixes_failed, the pass ends without a TEST phase and without ending the
\* loop, and the loop goes on with the next fix: no later pass selects F
\* for implementation again.
C18_FailedFixNotRetried ==
    /\ [][(pc = "implement" /\ implementation_results'.status = "failed")
            => /\ implementation_results'.fix_name \in Range(state'.fixes_failed)
               /\ pc' = "top"
               /\ state'.exit_condition = "None"]_vars
    /\ [][(pc = "implement" /\ implementation_results'.status # "no_fixes")
            => implementation_results'.fix_name \notin Range(state.fixes_failed)]_vars

\* C19: a pass implements at most one fix, the first candidate in diagnosis
\* order that is pending (priority HIGH, name not in fixes_attempted); a
\* MEDIUM or LOW candidate or one already in fixes_attempted is never
\* implemented; when no candidate is pending the pass runs no
\* implementation and no test.
C19_FirstPendingFix ==
    /\ [][pc = "implement" =>
            LET fixes == diagnostic_results.fixes
                pend  == {i \in 1..Len(fixes) :
                             /\ fixes[i].priority = "HIGH"
                             /\ fixes[i].name \notin Range(state.fixes_attempted)}
            IN  IF pend = {}
                THEN /\ implementation_results'.status = "no_fixes"
                     /\ state' = state
                     /\ pc' = "check_exit_no_fixes"
                ELSE /\ implementation_results'.status \in {"success", "failed"}
                     /\ implementation_results'.fix_name
                            = fixes[CHOOSE i \in pend : \A j \in pend : i <= j].name
                     /\ Len(state'.fixes_attempted) + Len(state'.fixes_failed)
                            = Len(state.fixes_attempted) + Len(state.fixes_failed) + 1]_vars
    /\ [][/\ pc' = "implement" => pc = "diagnose"
          /\ pc' = "diagnose" => (pc = "top" /\ state'.iteration = state.iteration + 1)
          /\ pc' = "test" => (pc = "implement"
                                /\ implementation_results'.status = "success")
          /\ pc # "implement" => state'.fixes_attempted = state.fixes_attempted]_vars
    /\ [](\A i, j \in 1..Len(state.iteration_history) :
            LET h == state.iteration_history
            IN  (/\ h[i].phase \in {"implementation", "testing"}
                 /\ h[i].phase = h[j].phase
                 /\ h[i].iteration = h[j].iteration) => i = j)

\* C19 witness: the diagnosis listed F1 with priority MEDIUM before F2 with
\* priority HIGH, and the pass implemented F2.
C19_Witness ==
    /\ pc = "test"
    /\ diagnostic_results.fixes[1] = FixCandidate("F1", "MEDIUM")
    /\ implementation_results.status = "success"
    /\ implementation_results.fix_name = "F2"
    /\ state.fixes_attempted = <<"F2">>

\* C20: fixes_attempted, fixes_successful and fixes_failed behave as sets:
\* no fix name occurs more than once in any of them.
C20_FixListsAreSets ==
    \A fixes \in {state.fixes_attempted, state.fixes_successful, state.fixes_failed} :
        \A i, j \in 1..Len(fixes) : fixes[i] = fixes[j] => i = j

\* C21: save_state followed by load_state of the written file yields a
\* RunState equal in every field to the one saved, also with empty
\* collections and a null exit_condition.
C21_SaveLoadRoundTrip ==
    [][(pc = "save_state" /\ pc' \in {"constructed", "load_error"})
          => (pc' = "constructed" /\ state' = state)]_vars

\* C22: if the process crashes at any point of a save, the state file
\* holds the complete document saved before or the complete new one,
\* never an empty or partly written text.
C22_SaveIsAtomic ==
    pc = "crashed" =>
        \/ state_file \in StoreFiles
        \/ state_file = save_state(state, "checkpoint")
        \/ state_file = generate_final_report(state)

\* C23: a coordinator constructed with a path that does not exist has a
\* freshly initialised RunState (iteration 0, max_iterations 10, null
\* baseline and exit_condition, empty collections) and no error is raised;
\* loading a file that is not a well-formed state document fails with an
\* error, the document is not taken as the RunState.
C23_MissingOrMalformedFile ==
    [][(pc' \in {"constructed", "load_error"} /\ pc \notin {"constructed", "load_error"})
          => /\ state_file = None
                  => /\ pc' = "constructed"
                     /\ state' = [iteration |-> 0, max_iterations |-> 10,
                                   baseline_metrics |-> None, current_metrics |-> None,
                                   iteration_history |-> <<>>, fixes_attempted |-> <<>>,
                                   fixes_successful |-> <<>>, fixes_failed |-> <<>>,
                                   exit_condition |-> "None"]
             /\ (/\ state_file # None
                 /\ \/ ~state_file.closed
                    \/ \E k \in Range(StateKeys) :
                          \A i \in 1..Len(state_file.members) :
                              state_file.members[i][1] # k)
                  => pc' = "load_error"]_vars

\* C24: a user interrupt (Ctrl+C) at a blocking point of the loop, the
\* prompt between two passes in particular, persists the current RunState
\* before the process ends: the state file holds the state of the last
\* completed pass.
C24_InterruptPersistsState ==
    [][(pc = "prompt" /\ pc' = "interrupted")
          => /\ state_file' # None
             /\ state_file'.closed
             /\ StoredRunState(state_file') = state']_vars

\* C25: when the aggregation, diagnosis or testing collaborator fails the
\* run is ended, no further phase of any iteration executes, and the
\* RunState is checkpointed with reason collaborator_failure before the
\* process ends.
C25_CollaboratorFailure ==
    /\ [][(pc = "report" => (pc' = "done" /\ state' = state))
          /\ (pc = "done" => pc' = "done")]_vars
    /\ [](pc = "done" /\ state.exit_condition = "None"
                      /\ next_action # "wait_and_retest"
            => /\ state_file # None
               /\ state_file.closed
               /\ LET doc == json_load(state_file).value
                  IN  /\ "reason" \in DOMAIN doc
                      /\ doc.reason = "collaborator_failure"
                      /\ doc.coordinator_state = state)

\* C26: the RunState is checkpointed to the state file at every phase
\* transition (after aggregation, diagnosis, implementation and testing),
\* before the next collaborator is called.
C26_CheckpointEveryPhase ==
    [][Len(state'.iteration_history) > Len(state.iteration_history)
          => /\ state_file' # None
             /\ state_file'.closed
             /\ StoredRunState(state_file') = state']_vars

\* C27: when the decision is wait_and_retest the controller persists the
\* RunState, starts no further phase in this process and leaves
\* exit_condition null; a coordinator constructed with the path of the
\* state file the process left holds the same iteration counter, history
\* and fix collections as at the suspension.
C27_SuspendAndResume ==
    /\ [][(pc = "decide" /\ next_action' = "wait_and_retest")
            => /\ state' = state
               /\ pc' = "report"
               /\ state_file'.closed
               /\ StoredRunState(state_file') = state]_vars
    /\ [][(pc = "report" /\ next_action = "wait_and_retest")
            => (pc' = "done" /\ state' = state)]_vars
    /\ []((pc \in {"report", "done"} /\ next_action = "wait_and_retest")
            => state.exit_condition = "None")
    /\ [][(pc = "done" /\ next_action = "wait_and_retest" /\ pc' # "done")
            => /\ pc' = "resumed"
               /\ Range(StateKeys) \subseteq DOMAIN state'
               /\ \A k \in {"iteration", "iteration_history", "fixes_attempted",
                             "fixes_successful", "fixes_failed"} :
                      state'[k] = state[k]]_vars

\* C27 witness: a run suspended by wait_and_retest in its second pass has
\* ended, and a coordinator was constructed from the state file it left.
C27_Witness ==
    /\ pc = "resumed"
    /\ next_action = "wait_and_retest"
    /\ state.iteration = 2
    /\ state.fixes_attempted # <<>>
    /\ state.exit_condition = "None"
    /\ StoredRunState(state_file) = state

\* C28: iteration_history is append-only and ordered: the iteration counter
\* grows by exactly 1 per loop pass, the iteration numbers do not decrease
\* along the history, the records of one iteration are a prefix of
\* aggregation, diagnostics, implementation, testing with each phase at most
\* once, and a testing record follows an implementation record of the same
\* iteration.
C28_HistoryOrdered ==
    /\ [][LET h == state.iteration_history
          IN  /\ Len(state'.iteration_history) >= Len(h)
              /\ SubSeq(state'.iteration_history, 1, Len(h)) = h]_vars
    /\ [][/\ pc = "top" => state'.iteration = state.iteration + 1
          /\ pc # "top" => state'.iteration = state.iteration]_vars
    /\ [](LET h == state.iteration_history
              order == <<"aggregation", "diagnostics", "implementation", "testing">>
              place(phase) == CHOOSE n \in 1..4 : order[n] = phase
          IN  \A i \in 1..Len(h) :
                  /\ h[i].phase \in Range(order)
                  /\ h[i].iteration <= state.iteration
                  /\ IF i > 1 /\ h[i - 1].iteration = h[i].iteration
                     THEN place(h[i].phase) = place(h[i - 1].phase) + 1
                     ELSE /\ h[i].phase = "aggregation"
                          /\ i > 1 => h[i - 1].iteration < h[i].iteration)

\* C28 witness: the history holds the four records of iteration 1 in order
\* and then records of iteration 2.
C28_Witness ==
    LET h == state.iteration_history
    IN  /\ Len(h) >= 6
        /\ h[3].phase = "implementation" /\ h[3].iteration = 1
        /\ h[4].phase = "testing" /\ h[4].iteration = 1
        /\ h[5].phase = "aggregation" /\ h[5].iteration = 2
        /\ h[6].phase = "diagnostics" /\ h[6].iteration = 2

\* C29: when the current snapshot equals the baseline in every error
\* metric, evaluate_fix meets exactly 3 of the 4 success indicators (all but
\* the error reduction of 10%), detects no failure indicator and decides
\* KEEP with success_rate 75.
C29_UnchangedFixKept ==
    (/\ pc = "evaluate_fix"
     /\ \A i \in 1..Len(evaluator.comparison_results) :
           evaluator.comparison_results[i].metric
               \in {"title_failures", "url_errors", "model_errors"}
             => evaluator.comparison_results[i].current
                  = evaluator.comparison_results[i].baseline)
       => /\ ret.raised = "None"
          /\ ret.value.success_count = 3
          /\ ret.value.total_indicators = 4
          /\ ~ret.value.failure_detected
          /\ ret.value.decision = "KEEP"
          /\ ret.value.success_rate = 7500
          /\ ~check_error_reduction(evaluator, 10)

\* C30: when the first aggregation snapshot of a run has no errors, the
\* cumulative error reduction is 0 whatever the later snapshots hold, and
\* should_exit reports neither success nor regression_detected.
C30_ZeroBaseline ==
    (/\ pc = "should_exit"
     /\ \E i \in 1..Len(state.iteration_history) :
           /\ state.iteration_history[i].phase = "aggregation"
           /\ \A j \in 1..(i - 1) : state.iteration_history[j].phase # "aggregation"
           /\ LET m == state.iteration_history[i].metrics_snapshot
              IN  m.title_failures + m.url_errors + m.model_errors = 0)
       => /\ state.exit_condition \notin {"success", "regression_detected"}
          /\ progress # None => progress.total_error_reduction = 0

\* C30 witness: should_exit was called below the budget on a run whose
\* first snapshot has no errors and whose latest has 100, and returned
\* false.
C30_Witness ==
    /\ pc = "should_exit"
    /\ state.iteration < state.max_iterations
    /\ progress # None
    /\ progress.baseline_errors = 0
    /\ progress.current_errors = 100
    /\ progress.total_error_reduction = 0
    /\ ~ret.should_exit
    /\ state.exit_condition = "None"

=============================================================================
